---- MODULE Spec2Model ----
(***************************************************************************)
(* Model of owlite_core.owlite_settings.OwLiteSettings: four independent   *)
(* cache files (tokens, devices, connected, urls) and the accessors that   *)
(* read, migrate, overwrite or delete them.                                *)
(*                                                                         *)
(* Python values are records carrying their class in the field cls; a      *)
(* dict is Dict(f) with f a function from its keys to values.  A file is   *)
(* either NoFile or File(text), where text is the JSON document written by *)
(* json.dumps(..., cls=ClassEncoder).                                      *)
(*                                                                         *)
(* The module also models owlite.nn.functions.ste.STEFunction: ste holds   *)
(* the autograd context of one forward/backward pair.                      *)
(***************************************************************************)
EXTENDS Integers, FiniteSets, Sequences, TLC

VARIABLES tokens_cache, devices_cache, connected_cache, urls_cache,
          op, arg, ret, raised, logged, devices_before, ste

vars == <<tokens_cache, devices_cache, connected_cache, urls_cache,
          op, arg, ret, raised, logged, devices_before, ste>>

files == <<tokens_cache, devices_cache, connected_cache, urls_cache>>

(***************************************************************************)
(* Bounds of the model.                                                    *)
(***************************************************************************)
MaxUser == 2
MaxLen == 2
MaxInput == 2

UserNamePool == <<"foo", "bar", "baz", "qux">>
UrlPool == <<"http://x", "http://y">>

UserNames == {UserNamePool[i] : i \in 1..MaxUser}
Urls == {UrlPool[1], UrlPool[2]}
ManagerNames == UserNames \cup {"NEST", "DEFAULT"}
LegacyAddr == "z"

(***************************************************************************)
(* Python values.                                                          *)
(***************************************************************************)
None == [cls |-> "NoneType"]
Str(s) == [cls |-> "str", val |-> s]
Dict(f) == [cls |-> "dict", items |-> f]
EmptyItems == [k \in {} |-> None]

DeviceManager(name, url) == [cls |-> "DeviceManager", name |-> name, url |-> url]
Device(name, manager) == [cls |-> "Device", name |-> name, manager_name |-> manager.name, manager_url |-> manager.url]
Tokens(access, refresh) == [cls |-> "Tokens", access_token |-> access, refresh_token |-> refresh]
BaseURLs(nest) == [cls |-> "BaseURLs", FRONT |-> "https://owlite.ai", MAIN |-> "https://api.owlite.ai", DOVE |-> "https://dove.owlite.ai", NEST |-> nest]
DefaultNest == "https://nest.owlite.ai"
DefaultBaseURLs == BaseURLs(DefaultNest)

isinstance(value, class) == value.cls = class

(***************************************************************************)
(* Inputs the callers pass.                                                *)
(***************************************************************************)
TokensInputs == {Tokens("a1", "r1"), Tokens("a2", "r2")}
ManagerInputs == {DeviceManager(n, u) : n \in UserNames, u \in Urls} \cup {DeviceManager(n, UrlPool[1]) : n \in {"NEST", "DEFAULT"}}
NameInputs == ManagerNames
DeviceInputs == {Device("dev0", DeviceManager("NEST", DefaultNest)), Device("dev1", DeviceManager(UserNamePool[1], UrlPool[1]))}
BaseURLsInputs == {BaseURLs(UrlPool[1])}

(***************************************************************************)
(* Files and the codec.                                                    *)
(***************************************************************************)
NoFile == [kind |-> "absent"]
File(text) == [kind |-> "file", text |-> text]

read_text(path) == IF path = NoFile THEN None ELSE path.text
write_text(text) == File(text)
unlink(path) == NoFile

RECURSIVE json_dumps(_)
json_dumps(o) ==
    CASE o.cls = "NoneType" -> [json |-> "null"]
      [] o.cls = "str" -> [json |-> "string", val |-> o.val]
      [] o.cls = "dict" -> [json |-> "object", members |-> [k \in DOMAIN o.items |-> json_dumps(o.items[k])]]
      [] OTHER -> [json |-> "object", members |-> [f \in DOMAIN o |-> IF f = "cls" THEN [json |-> "class", val |-> o.cls] ELSE [json |-> "string", val |-> o[f]]]]

IsTagged(text) == text.json = "object" /\ "cls" \in DOMAIN text.members

RECURSIVE json_loads(_)
json_loads(text) ==
    CASE text.json = "null" -> None
      [] text.json = "string" -> Str(text.val)
      [] IsTagged(text) -> [f \in DOMAIN text.members |-> text.members[f].val]
      [] OTHER -> Dict([k \in DOMAIN text.members |-> json_loads(text.members[k])])

\* The keys of a devices file and the class of the value under each key.
Shape(path) ==
    IF path = NoFile
    THEN [exists |-> FALSE, classes |-> <<>>]
    ELSE [exists |-> TRUE, classes |-> [k \in DOMAIN json_loads(path.text).items |-> json_loads(path.text).items[k].cls]]

(***************************************************************************)
(* tokens (property and setter).                                           *)
(***************************************************************************)
tokens_get(path) ==
    LET read_tokens == read_text(path)
    IN IF read_tokens = None THEN None ELSE json_loads(read_tokens)

\* tokens_set without the unlink: None leaves the file as it is.
tokens_set_keeps_file(path, new_tokens) ==
    IF new_tokens # None
    THEN write_text(json_dumps(new_tokens))
    ELSE path

tokens_set(path, new_tokens) ==
    IF new_tokens # None
    THEN write_text(json_dumps(new_tokens))
    ELSE unlink(path)

(***************************************************************************)
(* base_url (property and setter).                                         *)
(***************************************************************************)
\* base_url without the read of the urls file: the default is always returned.
base_url_get_always_default(path) == DefaultBaseURLs

base_url_get(path) ==
    LET base_urls == read_text(path)
    IN IF base_urls = None THEN DefaultBaseURLs ELSE json_loads(base_urls)

base_url_set(path, base_urls) == write_text(json_dumps(base_urls))

(***************************************************************************)
(* managers, add_manager, remove_manager.  Each returns the devices file   *)
(* it leaves behind, the value returned and the exception raised ("" when  *)
(* the call completes).                                                    *)
(***************************************************************************)
pop(d, key) == [k \in DOMAIN d \ {key} |-> d[k]]
update(d, other) == [k \in DOMAIN d \cup DOMAIN other |-> IF k \in DOMAIN other THEN other[k] ELSE d[k]]
setitem(d, key, value) == [k \in DOMAIN d \cup {key} |-> IF k = key THEN value ELSE d[k]]

\* backward_compatibility without the pop of "NEST".
backward_compatibility_keeps_nest(cached_managers) ==
    LET popped == pop(cached_managers, "DEFAULT")
    IN [key \in DOMAIN popped |->
           IF isinstance(popped[key], "str")
           THEN DeviceManager(key, popped[key].val)
           ELSE popped[key]]

\* The migration without the conversion of bare-string values.
backward_compatibility_keeps_strings(cached_managers) ==
    pop(pop(cached_managers, "DEFAULT"), "NEST")

backward_compatibility(cached_managers) ==
    LET popped == pop(pop(cached_managers, "DEFAULT"), "NEST")
    IN [key \in DOMAIN popped |->
           IF isinstance(popped[key], "str")
           THEN DeviceManager(key, popped[key].val)
           ELSE popped[key]]

\* managers without the write-back of the migrated mapping.
managers_no_write_back(devices, urls) ==
    LET default_manager == DeviceManager("NEST", base_url_get(urls).NEST)
        registered_managers == [k \in {"NEST"} |-> default_manager]
        cache_content == read_text(devices)
    IN IF cache_content = None
       THEN [file |-> devices, ret |-> Dict(registered_managers), raised |-> ""]
       ELSE LET cached_managers == backward_compatibility(json_loads(cache_content).items)
            IN IF DOMAIN cached_managers = {}
               THEN [file |-> devices, ret |-> None, raised |-> "AssertionError"]
               ELSE [file |-> devices, ret |-> Dict(update(registered_managers, cached_managers)), raised |-> ""]

\* managers writing back the view it returns, synthetic entry included.
managers_writes_view(devices, urls) ==
    LET default_manager == DeviceManager("NEST", base_url_get(urls).NEST)
        registered_managers == [k \in {"NEST"} |-> default_manager]
        cache_content == read_text(devices)
    IN IF cache_content = None
       THEN [file |-> devices, ret |-> Dict(registered_managers), raised |-> ""]
       ELSE LET cached_managers == backward_compatibility(json_loads(cache_content).items)
                written == write_text(json_dumps(Dict(update(registered_managers, cached_managers))))
            IN IF DOMAIN cached_managers = {}
               THEN [file |-> written, ret |-> None, raised |-> "AssertionError"]
               ELSE [file |-> written, ret |-> Dict(update(registered_managers, cached_managers)), raised |-> ""]

\* managers without the assertion on the migrated mapping.
managers_no_assert(devices, urls) ==
    LET default_manager == DeviceManager("NEST", base_url_get(urls).NEST)
        registered_managers == [k \in {"NEST"} |-> default_manager]
        cache_content == read_text(devices)
    IN IF cache_content = None
       THEN [file |-> devices, ret |-> Dict(registered_managers), raised |-> ""]
       ELSE LET cached_managers == backward_compatibility(json_loads(cache_content).items)
                written == write_text(json_dumps(Dict(cached_managers)))
            IN [file |-> written, ret |-> Dict(update(registered_managers, cached_managers)), raised |-> ""]

managers(devices, urls) ==
    LET default_manager == DeviceManager("NEST", base_url_get(urls).NEST)
        registered_managers == [k \in {"NEST"} |-> default_manager]
        cache_content == read_text(devices)
    IN IF cache_content = None
       THEN [file |-> devices, ret |-> Dict(registered_managers), raised |-> ""]
       ELSE LET cached_managers == backward_compatibility(json_loads(cache_content).items)
                written == write_text(json_dumps(Dict(cached_managers)))
            IN IF DOMAIN cached_managers = {}
               THEN [file |-> written, ret |-> None, raised |-> "AssertionError"]
               ELSE [file |-> written, ret |-> Dict(update(registered_managers, cached_managers)), raised |-> ""]

add_manager(devices, urls, manager) ==
    LET got == managers(devices, urls)
    IN IF got.raised # ""
       THEN got
       ELSE LET manager_dict == pop(setitem(got.ret.items, manager.name, manager), "NEST")
            IN [file |-> write_text(json_dumps(Dict(manager_dict))), ret |-> None, raised |-> ""]

\* remove_manager without the emptiness test: the mapping is always written.
remove_manager_always_writes(devices, urls, name) ==
    LET got == managers(devices, urls)
    IN IF got.raised # ""
       THEN got
       ELSE LET manager_dict == pop(got.ret.items, name)
            IN IF "NEST" \notin DOMAIN manager_dict
               THEN [file |-> got.file, ret |-> None, raised |-> "KeyError"]
               ELSE [file |-> write_text(json_dumps(Dict(pop(manager_dict, "NEST")))), ret |-> None, raised |-> ""]

remove_manager(devices, urls, name) ==
    LET got == managers(devices, urls)
    IN IF got.raised # ""
       THEN got
       ELSE LET manager_dict == pop(got.ret.items, name)
            IN IF "NEST" \notin DOMAIN manager_dict
               THEN [file |-> got.file, ret |-> None, raised |-> "KeyError"]
               ELSE IF DOMAIN pop(manager_dict, "NEST") # {}
                    THEN [file |-> write_text(json_dumps(Dict(pop(manager_dict, "NEST")))), ret |-> None, raised |-> ""]
                    ELSE [file |-> unlink(got.file), ret |-> None, raised |-> ""]

(***************************************************************************)
(* connected_device (property and setter).                                 *)
(***************************************************************************)
\* connected_device setter without the unlink: None leaves the file as it is.
connected_device_set_keeps_file(path, device) ==
    IF device # None
    THEN write_text(json_dumps(device))
    ELSE path

connected_device_set(path, device) ==
    IF device # None
    THEN write_text(json_dumps(device))
    ELSE unlink(path)

\* connected_device without the purge of a value that is not a Device.
connected_device_get_no_purge(path) ==
    LET connected_device == read_text(path)
    IN IF connected_device # None
       THEN LET device == json_loads(connected_device)
            IN IF ~isinstance(device, "Device")
               THEN [file |-> path, ret |-> device, logged |-> 1]
               ELSE [file |-> path, ret |-> device, logged |-> 0]
       ELSE [file |-> path, ret |-> None, logged |-> 0]

\* A connected_device read that deletes whatever file it finds.
connected_device_get_purges_always(path) ==
    LET connected_device == read_text(path)
    IN IF connected_device # None
       THEN LET device == json_loads(connected_device)
            IN [file |-> connected_device_set(path, None), ret |-> device,
                logged |-> IF isinstance(device, "Device") THEN 0 ELSE 1]
       ELSE [file |-> path, ret |-> None, logged |-> 0]

connected_device_get(path) ==
    LET connected_device == read_text(path)
    IN IF connected_device # None
       THEN LET device == json_loads(connected_device)
            IN IF ~isinstance(device, "Device")
               THEN [file |-> connected_device_set(path, None), ret |-> device, logged |-> 1]
               ELSE [file |-> path, ret |-> device, logged |-> 0]
       ELSE [file |-> path, ret |-> None, logged |-> 0]

\* The autograd context before STEFunction is applied.
STEStart == [pc |-> "start"]

(***************************************************************************)
(* State after construction: the cache directory exists and is empty.      *)
(***************************************************************************)
Init ==
    /\ tokens_cache = NoFile
    /\ devices_cache = NoFile
    /\ connected_cache = NoFile
    /\ urls_cache = NoFile
    /\ op = "init"
    /\ arg = None
    /\ ret = None
    /\ raised = ""
    /\ logged = 0
    /\ devices_before = Shape(devices_cache)
    /\ ste = STEStart

(***************************************************************************)
(* One action per accessor call.  op, arg, ret, raised and logged record   *)
(* the last call, its argument, its result, the exception it raised and    *)
(* the number of warnings it logged; devices_before is the shape (the keys *)
(* and the class of each value) of the devices file as the last call found *)
(* it.                                                                     *)
(***************************************************************************)
TokensGet ==
    /\ op' = "tokens_get"
    /\ arg' = None
    /\ ret' = tokens_get(tokens_cache)
    /\ raised' = ""
    /\ logged' = 0
    /\ devices_before' = Shape(devices_cache)
    /\ ste' = ste
    /\ UNCHANGED files

\* A tokens setter whose logout also removes the connected-device file.
TokensSet_unlinks_connected(new_tokens) ==
    /\ op' = "tokens_set"
    /\ arg' = new_tokens
    /\ tokens_cache' = tokens_set(tokens_cache, new_tokens)
    /\ connected_cache' = IF new_tokens = None THEN NoFile ELSE connected_cache
    /\ ret' = None
    /\ raised' = ""
    /\ logged' = 0
    /\ devices_before' = Shape(devices_cache)
    /\ ste' = ste
    /\ UNCHANGED <<devices_cache, urls_cache>>

TokensSet(new_tokens) ==
    /\ op' = "tokens_set"
    /\ arg' = new_tokens
    /\ tokens_cache' = tokens_set(tokens_cache, new_tokens)
    /\ ret' = None
    /\ raised' = ""
    /\ logged' = 0
    /\ devices_before' = Shape(devices_cache)
    /\ ste' = ste
    /\ UNCHANGED <<devices_cache, connected_cache, urls_cache>>

Managers ==
    LET r == managers(devices_cache, urls_cache)
    IN /\ op' = "managers"
       /\ arg' = None
       /\ devices_cache' = r.file
       /\ ret' = r.ret
       /\ raised' = r.raised
       /\ logged' = 0
       /\ devices_before' = Shape(devices_cache)
       /\ ste' = ste
       /\ UNCHANGED <<tokens_cache, connected_cache, urls_cache>>

AddManager(manager) ==
    LET r == add_manager(devices_cache, urls_cache, manager)
    IN /\ op' = "add_manager"
       /\ arg' = manager
       /\ devices_cache' = r.file
       /\ ret' = r.ret
       /\ raised' = r.raised
       /\ logged' = 0
       /\ devices_before' = Shape(devices_cache)
       /\ ste' = ste
       /\ UNCHANGED <<tokens_cache, connected_cache, urls_cache>>

RemoveManager(name) ==
    LET r == remove_manager(devices_cache, urls_cache, name)
    IN /\ op' = "remove_manager"
       /\ arg' = Str(name)
       /\ devices_cache' = r.file
       /\ ret' = r.ret
       /\ raised' = r.raised
       /\ logged' = 0
       /\ devices_before' = Shape(devices_cache)
       /\ ste' = ste
       /\ UNCHANGED <<tokens_cache, connected_cache, urls_cache>>

ConnectedDeviceGet ==
    LET r == connected_device_get(connected_cache)
    IN /\ op' = "connected_device_get"
       /\ arg' = None
       /\ connected_cache' = r.file
       /\ ret' = r.ret
       /\ raised' = ""
       /\ logged' = r.logged
       /\ devices_before' = Shape(devices_cache)
       /\ ste' = ste
       /\ UNCHANGED <<tokens_cache, devices_cache, urls_cache>>

ConnectedDeviceSet(device) ==
    /\ op' = "connected_device_set"
    /\ arg' = device
    /\ connected_cache' = connected_device_set(connected_cache, device)
    /\ ret' = None
    /\ raised' = ""
    /\ logged' = 0
    /\ devices_before' = Shape(devices_cache)
    /\ ste' = ste
    /\ UNCHANGED <<tokens_cache, devices_cache, urls_cache>>

BaseUrlGet ==
    /\ op' = "base_url_get"
    /\ arg' = None
    /\ ret' = base_url_get(urls_cache)
    /\ raised' = ""
    /\ logged' = 0
    /\ devices_before' = Shape(devices_cache)
    /\ ste' = ste
    /\ UNCHANGED files

BaseUrlSet(base_urls) ==
    /\ op' = "base_url_set"
    /\ arg' = base_urls
    /\ urls_cache' = base_url_set(urls_cache, base_urls)
    /\ ret' = None
    /\ raised' = ""
    /\ logged' = 0
    /\ devices_before' = Shape(devices_cache)
    /\ ste' = ste
    /\ UNCHANGED <<tokens_cache, devices_cache, connected_cache>>

Next ==
    \/ TokensGet
    \/ \E new_tokens \in TokensInputs \cup {None} : TokensSet(new_tokens)
    \/ Managers
    \/ \E manager \in ManagerInputs : AddManager(manager)
    \/ \E name \in NameInputs : RemoveManager(name)
    \/ ConnectedDeviceGet
    \/ \E device \in DeviceInputs \cup {None} : ConnectedDeviceSet(device)
    \/ BaseUrlGet
    \/ \E base_urls \in BaseURLsInputs : BaseUrlSet(base_urls)

Spec == Init /\ [][Next]_vars

(***************************************************************************)
(* A cache directory left behind by an earlier release: the devices file   *)
(* may hold the keys DEFAULT and NEST and bare address strings, and the    *)
(* connected file may hold a value that is not a Device.                   *)
(***************************************************************************)
LegacyEntries ==
    [k \in {"DEFAULT", "NEST", UserNamePool[1], UserNamePool[2]} |->
        CASE k \in {"DEFAULT", "NEST"} -> Str(LegacyAddr)
          [] k = UserNamePool[1] -> Str(UrlPool[1])
          [] OTHER -> DeviceManager(k, UrlPool[2])]

LegacyDicts == {[k \in keys |-> LegacyEntries[k]] : keys \in SUBSET DOMAIN LegacyEntries \ {{}}}

StaleConnected == {Dict([name |-> Str("dev1")])}

InitLegacy ==
    /\ tokens_cache = NoFile
    /\ devices_cache \in {NoFile} \cup {File(json_dumps(Dict(d))) : d \in LegacyDicts}
    /\ connected_cache \in {NoFile} \cup {File(json_dumps(v)) : v \in StaleConnected}
    /\ urls_cache = NoFile
    /\ op = "init"
    /\ arg = None
    /\ ret = None
    /\ raised = ""
    /\ logged = 0
    /\ devices_before = Shape(devices_cache)
    /\ ste = STEStart

SpecLegacy == InitLegacy /\ [][Next]_vars

(***************************************************************************)
(* STEFunction.  A tensor is a sequence of integers (one dimension); a     *)
(* step_size of one element is per-tensor, one of the inputs' length is    *)
(* per-channel.  forward saves the inputs and the two bounds in the        *)
(* context; its result, fake_quantize(...), changes no state and is left   *)
(* out.  zero_point, grad_scale, axis and compensate_zp reach neither the  *)
(* context nor backward.                                                   *)
(***************************************************************************)
Values == (0 - MaxInput)..MaxInput
Tensors(S) == UNION {[1..n -> S] : n \in 1..MaxLen}
StepSizes == {1, 2}
QuantRanges == {<<0 - 2, 1>>, <<0, 3>>}
GradValues == {1, 2}

\* Element i of tensor t broadcast against a tensor of more elements.
at(t, i) == IF Len(t) = 1 THEN t[1] ELSE t[i]

\* scalar * tensor, tensor.reshape([-1] + [1] * (dim - 1)) for dim = 1.
mul(scalar, t) == [i \in 1..Len(t) |-> scalar * t[i]]
reshape(t) == [i \in 1..Len(t) |-> t[i]]

forward(inputs, step_size, quant_min, quant_max) ==
    LET lower_bound == mul(quant_min, step_size)
        upper_bound == mul(quant_max, step_size)
    IN [saved_tensors |-> <<inputs>>, other |-> <<lower_bound, upper_bound>>]

backward(ctx, grad_output) ==
    LET inputs == ctx.saved_tensors[1]
        lower_bound == reshape(ctx.other[1])
        upper_bound == reshape(lower_bound)
        grad_inputs == [i \in 1..Len(inputs) |->
                           IF inputs[i] >= at(lower_bound, i) /\ inputs[i] <= at(upper_bound, i)
                           THEN grad_output[i]
                           ELSE 0]
    IN <<grad_inputs, None, None, None, None, None, None, None>>

Forward(inputs, step_size, quant_min, quant_max) ==
    /\ ste.pc = "start"
    /\ ste' = [pc |-> "forward",
               args |-> [inputs |-> inputs, step_size |-> step_size, quant_min |-> quant_min, quant_max |-> quant_max],
               ctx |-> forward(inputs, step_size, quant_min, quant_max)]
    /\ UNCHANGED <<tokens_cache, devices_cache, connected_cache, urls_cache, op, arg, ret, raised, logged, devices_before>>

Backward(grad_output) ==
    /\ ste.pc = "forward"
    /\ ste' = [pc |-> "backward", args |-> ste.args, ctx |-> ste.ctx,
               grad_output |-> grad_output, grads |-> backward(ste.ctx, grad_output)]
    /\ UNCHANGED <<tokens_cache, devices_cache, connected_cache, urls_cache, op, arg, ret, raised, logged, devices_before>>

NextSTE ==
    \/ \E inputs \in Tensors(Values), step_size \in Tensors(StepSizes), range \in QuantRanges :
          /\ Len(step_size) \in {1, Len(inputs)}
          /\ Forward(inputs, step_size, range[1], range[2])
    \/ \E grad_output \in Tensors(GradValues) :
          /\ ste.pc = "forward"
          /\ Len(grad_output) = Len(ste.args.inputs)
          /\ Backward(grad_output)

SpecSTE == Init /\ [][NextSTE]_vars

(***************************************************************************)
(* Vocabulary of the properties.                                           *)
(***************************************************************************)
DeviceCalls == {"managers", "add_manager", "remove_manager"}
Reserved == {"NEST", "DEFAULT"}

\* The mapping a devices file holds; the empty mapping when it is absent.
OnDisk(path) == IF path = NoFile THEN EmptyItems ELSE json_loads(path.text).items

\* The user-defined keys of a devices file.
UserKeys(path) == DOMAIN OnDisk(path) \ Reserved

\* The keys, and the user-defined keys, the last call found in the devices file.
KeysBefore == DOMAIN devices_before.classes
UserKeysBefore == KeysBefore \ Reserved

\* The structured record of the entry stored as value under key.
Structured(key, value) == IF value.cls = "str" THEN DeviceManager(key, value.val) ELSE value

\* The entry computed from the base URLs a base_url read returns now.
Synthetic == DeviceManager("NEST", base_url_get(urls_cache).NEST)

\* The view holding the synthetic entry and nothing else.
OnlyNest == Dict([k \in {"NEST"} |-> Synthetic])

(***************************************************************************)
(* C1: every mapping managers() returns has the key "NEST", and its value  *)
(* is DeviceManager("NEST", u.NEST) for the base URLs u that base_url      *)
(* returns now, whatever the devices file held under "NEST".               *)
(***************************************************************************)
C1_NestIsSynthetic ==
    (op = "managers" /\ raised = "") =>
        /\ "NEST" \in DOMAIN ret.items
        /\ ret.items["NEST"] = Synthetic

C1_Witness ==
    /\ op = "managers"
    /\ raised = ""
    /\ "NEST" \in KeysBefore
    /\ urls_cache # NoFile
    /\ ret.items["NEST"].url # LegacyAddr

(***************************************************************************)
(* C2: after a managers(), add_manager(m) or remove_manager(name) call     *)
(* completes, the devices file (if it exists) holds neither the key "NEST" *)
(* nor the key "DEFAULT".                                                  *)
(***************************************************************************)
C2_NoReservedKeyOnDisk ==
    (op \in DeviceCalls /\ raised = "") => DOMAIN OnDisk(devices_cache) \cap Reserved = {}

(***************************************************************************)
(* C3: after any managers, add_manager or remove_manager call the devices  *)
(* file never exists while holding an empty mapping.                       *)
(***************************************************************************)
C3_NoEmptyDevicesFile ==
    op \in DeviceCalls => (devices_cache = NoFile \/ DOMAIN OnDisk(devices_cache) # {})

(***************************************************************************)
(* C4: add_manager(m) completes and leaves the devices file holding        *)
(* m.name -> m, no "NEST", and every other user entry registered before,   *)
(* unchanged; the managers() call that follows returns a mapping with      *)
(* m.name -> m, "NEST" -> the synthetic entry and those other entries.     *)
(* The claim is stated for every m; it is written here for the managers    *)
(* not named "NEST" only (under that name the claim asks the file both to  *)
(* hold and not to hold the key), so a violation of this formula refutes   *)
(* the claim as stated.                                                    *)
(***************************************************************************)
C4_AddThenManagers ==
    [][/\ (op' = "add_manager" /\ arg'.name # "NEST") =>
             /\ raised' = ""
             /\ arg'.name \in DOMAIN OnDisk(devices_cache')
             /\ OnDisk(devices_cache')[arg'.name] = arg'
             /\ "NEST" \notin DOMAIN OnDisk(devices_cache')
             /\ \A k \in UserKeys(devices_cache) \ {arg'.name} :
                   /\ k \in DOMAIN OnDisk(devices_cache')
                   /\ OnDisk(devices_cache')[k] = Structured(k, OnDisk(devices_cache)[k])
       /\ (op = "add_manager" /\ arg.name # "NEST" /\ op' = "managers") =>
             /\ raised' = ""
             /\ arg.name \in DOMAIN ret'.items
             /\ ret'.items[arg.name] = arg
             /\ ret'.items["NEST"] = Synthetic'
             /\ \A k \in UserKeysBefore \ {arg.name} :
                   /\ k \in DOMAIN ret'.items
                   /\ ret'.items[k] = OnDisk(devices_cache)[k]]_vars

(***************************************************************************)
(* C5: remove_manager(name) completes without raising for every name,      *)
(* leaves every other user entry on disk unchanged, and a second           *)
(* remove_manager of the same name completes and leaves the devices file   *)
(* as the first left it.                                                   *)
(***************************************************************************)
C5_RemoveNeverFails ==
    [][op' = "remove_manager" =>
          /\ raised' = ""
          /\ \A k \in UserKeys(devices_cache) \ {arg'.val} :
                /\ k \in DOMAIN OnDisk(devices_cache')
                /\ OnDisk(devices_cache')[k] = Structured(k, OnDisk(devices_cache)[k])
          /\ remove_manager(devices_cache', urls_cache', arg'.val).raised = ""
          /\ remove_manager(devices_cache', urls_cache', arg'.val).file = devices_cache']_vars

(***************************************************************************)
(* C6: when the devices file holds exactly one user manager,               *)
(* remove_manager of its name completes and leaves the file absent, and    *)
(* the managers() call that follows returns exactly {"NEST": synthetic}    *)
(* and leaves the file absent.                                             *)
(***************************************************************************)
C6_RemoveLast ==
    [][/\ (op' = "remove_manager" /\ UserKeys(devices_cache) = {arg'.val}) =>
             (raised' = "" /\ devices_cache' = NoFile)
       /\ (op = "remove_manager" /\ UserKeysBefore = {arg.val} /\ op' = "managers") =>
             (raised' = "" /\ ret' = OnlyNest' /\ devices_cache' = NoFile)]_vars

C6_Witness ==
    /\ op = "remove_manager"
    /\ raised = ""
    /\ UserKeysBefore = {arg.val}
    /\ devices_cache = NoFile

(***************************************************************************)
(* C7: managers() on a legacy devices file with at least one key other     *)
(* than "DEFAULT" and "NEST" drops those two keys, turns every bare string *)
(* key -> url into DeviceManager(key, url), keeps structured entries as    *)
(* they are, returns that mapping plus the synthetic "NEST", and leaves    *)
(* the file holding exactly the migrated mapping.                          *)
(***************************************************************************)
C7_Migration ==
    [][(op' = "managers" /\ UserKeys(devices_cache) # {}) =>
          LET old == OnDisk(devices_cache)
              new == OnDisk(devices_cache')
          IN /\ raised' = ""
             /\ devices_cache' # NoFile
             /\ DOMAIN new = DOMAIN old \ Reserved
             /\ \A k \in DOMAIN new :
                   /\ old[k].cls = "str" => new[k] = DeviceManager(k, old[k].val)
                   /\ old[k].cls = "DeviceManager" => new[k] = old[k]
             /\ DOMAIN ret'.items = DOMAIN new \cup {"NEST"}
             /\ \A k \in DOMAIN new : ret'.items[k] = new[k]
             /\ ret'.items["NEST"] = Synthetic']_vars

C7_Witness ==
    /\ op = "managers"
    /\ raised = ""
    /\ Reserved \subseteq KeysBefore
    /\ \E k \in UserKeysBefore : devices_before.classes[k] = "str"
    /\ \E k \in UserKeysBefore : devices_before.classes[k] = "DeviceManager"
    /\ Shape(devices_cache) # devices_before

(***************************************************************************)
(* C8: a connected_device read of a file holding a value that is not a     *)
(* Device returns that value, logs exactly one warning and deletes the     *)
(* file; while the file is absent every read returns None and logs         *)
(* nothing, and only the connected_device setter brings the file back.     *)
(***************************************************************************)
IsStale(path) == path # NoFile /\ json_loads(path.text).cls # "Device"

C8_StaleRecovery ==
    [][/\ (op' = "connected_device_get" /\ IsStale(connected_cache)) =>
             /\ ret' = json_loads(connected_cache.text)
             /\ logged' = 1
             /\ connected_cache' = NoFile
       /\ (op' = "connected_device_get" /\ connected_cache = NoFile) =>
             /\ ret' = None
             /\ logged' = 0
             /\ connected_cache' = NoFile
       /\ (connected_cache = NoFile /\ connected_cache' # NoFile) =>
             op' = "connected_device_set"]_vars

C8_Witness ==
    /\ op = "connected_device_get"
    /\ logged = 1
    /\ ret \in StaleConnected
    /\ connected_cache = NoFile

(***************************************************************************)
(* C9: setting tokens to a Tokens value t and then reading tokens returns  *)
(* t; setting tokens to None leaves the tokens file absent, whether or not *)
(* it existed, and the read that follows returns None.                     *)
(***************************************************************************)
C9_TokensRoundTrip ==
    [][/\ (op' = "tokens_set" /\ arg' = None) => (raised' = "" /\ tokens_cache' = NoFile)
       /\ (op' = "tokens_set" /\ arg' # None) => (raised' = "" /\ tokens_cache' # NoFile)
       /\ (op = "tokens_set" /\ op' = "tokens_get") => (raised' = "" /\ ret' = arg)]_vars

C9_Witness ==
    /\ op = "tokens_get"
    /\ ret \in TokensInputs
    /\ tokens_cache # NoFile

(***************************************************************************)
(* C10: setting connected_device to a Device d and then reading it returns *)
(* a value equal to d and leaves the connected file in place; setting it   *)
(* to None leaves the file absent, whether or not it existed, and the read *)
(* that follows returns None.                                              *)
(***************************************************************************)
C10_ConnectedRoundTrip ==
    [][/\ (op' = "connected_device_set" /\ arg' = None) => (raised' = "" /\ connected_cache' = NoFile)
       /\ (op = "connected_device_set" /\ op' = "connected_device_get") =>
             /\ raised' = ""
             /\ ret' = arg
             /\ logged' = 0
             /\ connected_cache' = connected_cache
             /\ (arg # None) = (connected_cache' # NoFile)]_vars

C10_Witness ==
    /\ op = "connected_device_get"
    /\ ret \in DeviceInputs
    /\ connected_cache # NoFile

C12_StraightThrough ==
    ste.pc = "backward" =>
        LET a == ste.args
        IN /\ Len(ste.grads) = 8
           /\ Len(ste.grads[1]) = Len(a.inputs)
           /\ \A i \in 1..Len(a.inputs) :
                 ste.grads[1][i] =
                     IF /\ a.quant_min * at(a.step_size, i) <= a.inputs[i]
                        /\ a.inputs[i] <= a.quant_max * at(a.step_size, i)
                     THEN ste.grad_output[i]
                     ELSE 0
           /\ \A j \in 2..8 : ste.grads[j] = None

(***************************************************************************)
(* C13: every write changes only the file of its own partition.  The       *)
(* tokens setter leaves the devices, connected and urls files unchanged;   *)
(* add_manager and remove_manager leave tokens, connected and urls         *)
(* unchanged; the connected_device setter and the purge of a stale read    *)
(* leave tokens, devices and urls unchanged; the base_url setter leaves    *)
(* tokens, devices and connected unchanged.                                *)
(***************************************************************************)
C13_Partitions ==
    [][/\ op' = "tokens_set" => UNCHANGED <<devices_cache, connected_cache, urls_cache>>
       /\ op' \in {"add_manager", "remove_manager"} => UNCHANGED <<tokens_cache, connected_cache, urls_cache>>
       /\ op' \in {"connected_device_set", "connected_device_get"} => UNCHANGED <<tokens_cache, devices_cache, urls_cache>>
       /\ op' = "base_url_set" => UNCHANGED <<tokens_cache, devices_cache, connected_cache>>]_vars

C13_Witness ==
    /\ op = "tokens_set" /\ arg = None /\ tokens_cache = NoFile
    /\ devices_cache # NoFile /\ connected_cache # NoFile /\ urls_cache # NoFile

\* A devices file of the current shape: no reserved key, no bare-string value.
CurrentShape(path) ==
    /\ path # NoFile
    /\ \A k \in DOMAIN OnDisk(path) : k \notin Reserved /\ OnDisk(path)[k].cls # "str"

(***************************************************************************)
(* C14: managers() changes the content of the devices file only when       *)
(* migration altered the mapping; on a file of the current shape it leaves *)
(* the content unchanged; and a second managers() call right after the     *)
(* first returns the same result and leaves the content the first left.    *)
(***************************************************************************)
C14_MigrationOnce ==
    [][op' = "managers" =>
          /\ devices_cache' # devices_cache =>
                /\ devices_cache # NoFile
                /\ backward_compatibility(OnDisk(devices_cache)) # OnDisk(devices_cache)
          /\ CurrentShape(devices_cache) => devices_cache' = devices_cache
          /\ LET again == managers(devices_cache', urls_cache')
             IN /\ again.file = devices_cache'
                /\ again.ret = ret'
                /\ again.raised = raised']_vars

C14_Witness ==
    /\ op = "managers"
    /\ raised = ""
    /\ CurrentShape(devices_cache)
    /\ devices_before = Shape(devices_cache)
    /\ Cardinality(UserKeys(devices_cache)) = MaxUser

(***************************************************************************)
(* C15: when the devices file exists and nothing is left of its mapping    *)
(* once "DEFAULT" and "NEST" are dropped, managers() raises instead of     *)
(* returning a view; no view is ever built from the empty user mapping of  *)
(* an existing file.                                                       *)
(***************************************************************************)
C15_EmptyFails ==
    [][op' = "managers" =>
          /\ (devices_cache # NoFile /\ UserKeys(devices_cache) = {}) =>
                (raised' = "AssertionError" /\ ret' = None)
          /\ (raised' = "" /\ devices_cache # NoFile) =>
                /\ UserKeys(devices_cache) # {}
                /\ DOMAIN ret'.items = UserKeys(devices_cache) \cup {"NEST"}]_vars

C15_Witness ==
    /\ op = "managers"
    /\ raised = "AssertionError"
    /\ devices_before.exists
    /\ KeysBefore # {}
    /\ UserKeysBefore = {}

(***************************************************************************)
(* C16: a managers(), add_manager or remove_manager call that raises       *)
(* leaves the devices file exactly as it was before the call.              *)
(***************************************************************************)
C16_UnchangedOnError ==
    [][(op' \in DeviceCalls /\ raised' # "") => devices_cache' = devices_cache]_vars

(***************************************************************************)
(* C17: for a manager m whose name is not a key of the devices mapping on  *)
(* disk, add_manager(m) followed by remove_manager(m.name) succeeds and    *)
(* restores the devices partition: the user entries are those from before  *)
(* the add, and the file is absent if it was absent.                       *)
(***************************************************************************)
C17_AddThenRemove ==
    [][(op' = "add_manager" /\ arg'.name \notin DOMAIN OnDisk(devices_cache)) =>
          LET removed == remove_manager(devices_cache', urls_cache', arg'.name)
              old == OnDisk(devices_cache)
              new == OnDisk(removed.file)
          IN /\ raised' = ""
             /\ removed.raised = ""
             /\ devices_cache = NoFile => removed.file = NoFile
             /\ UserKeys(removed.file) = UserKeys(devices_cache)
             /\ \A k \in UserKeys(devices_cache) : new[k] = Structured(k, old[k])]_vars

\* Every entry of a devices file is a DeviceManager named as its key.
AllStructured(path) ==
    \A k \in DOMAIN OnDisk(path) :
        /\ OnDisk(path)[k].cls = "DeviceManager"
        /\ OnDisk(path)[k].name = k

(***************************************************************************)
(* C18: from an absent devices file, or a legacy file whose structured     *)
(* entries are keyed by their own names, every managers(), add_manager or  *)
(* remove_manager call leaves on disk a mapping in which every entry is a  *)
(* DeviceManager whose name is the key it is stored under, and no later    *)
(* call breaks that.                                                       *)
(***************************************************************************)
C18_EntriesStructured ==
    [][(op' \in DeviceCalls \/ AllStructured(devices_cache)) => AllStructured(devices_cache')]_vars

C18_Witness ==
    /\ op = "add_manager"
    /\ raised = ""
    /\ \E k \in UserKeysBefore : devices_before.classes[k] = "str" /\ k \in UserKeys(devices_cache)
    /\ arg.name \in UserKeys(devices_cache) \ KeysBefore
    /\ AllStructured(devices_cache)

\* The calls that read a partition.
Getters == {"tokens_get", "managers", "connected_device_get", "base_url_get"}

(***************************************************************************)
(* C19: the tokens getter, the base_url getter, and the connected_device   *)
(* getter on an absent file or a file holding a Device leave all four      *)
(* files unchanged and log no warning; a read changes a file only when it  *)
(* is managers() on a legacy-shaped devices file, which changes the        *)
(* devices file alone, or connected_device on a value that is not a        *)
(* Device, which changes the connected file alone.                         *)
(***************************************************************************)
C19_ReadsPure ==
    [][/\ op' \in {"tokens_get", "base_url_get"} => (UNCHANGED files /\ logged' = 0)
       /\ (op' = "connected_device_get" /\ ~IsStale(connected_cache)) => (UNCHANGED files /\ logged' = 0)
       /\ (op' \in Getters /\ files' # files) =>
             \/ /\ op' = "managers"
                /\ devices_cache # NoFile
                /\ ~CurrentShape(devices_cache)
                /\ UNCHANGED <<tokens_cache, connected_cache, urls_cache>>
             \/ /\ op' = "connected_device_get"
                /\ IsStale(connected_cache)
                /\ UNCHANGED <<tokens_cache, devices_cache, urls_cache>>]_vars

C19_Witness ==
    /\ op = "connected_device_get"
    /\ ret \in DeviceInputs
    /\ logged = 0
    /\ connected_cache # NoFile
    /\ tokens_cache # NoFile
    /\ CurrentShape(devices_cache)

====
